---- MODULE Spec2Model ----
(***************************************************************************)
(* Model of the multi-account send scheduler of app.py: the daily counter  *)
(* store, SMTPAccountManager (rotation, rate-limited / failed marks), the  *)
(* error classification and the campaign send loop.                        *)
(***************************************************************************)
EXTENDS Integers, Sequences, FiniteSets, TLC

\* ------------------------------------------------------------------ bounds
MaxAccounts == 2
MaxLimit == 2
NumRecipients == 6
MaxDisturbances == 2
MaxDay == 2
MaxDelta == 2
MaxRawLen == 3
LiveRecipients == 3
MaxRunSends == 2

\* ------------------------------------------------------- program constants
MAX_RETRIES == 1

\* Python's None / a missing dictionary value.
None == 0

\* The value of acc when get_next_available_account returned no account.
NoAccount == [email |-> None, username |-> None, name |-> None]

\* The error of a successful send_via_smtp (None / the empty text).
NoError == {}

\* The calendar date a run starts on, and a date before it (a stale record).
Today0 == 1
Yesterday == 0

VARIABLES
    accounts,               \* mgr.accounts: the selected accounts, in order
    daily_limit,            \* mgr.daily_limit
    raw_list,               \* the recipient entries as uploaded / pasted
    runs,                   \* campaign runs that share the store, each inside
                            \* update_sent_counter or between two sends
    recipients,             \* the sanitized recipient list
    today,                  \* date.today()
    counters,               \* contents of sent_counters.json
    counters_file,          \* sent_counters.json: present, missing or corrupt
    current_index,          \* mgr.current_index (0-based)
    rate_limited_accounts,  \* mgr.rate_limited_accounts
    failed_accounts,        \* mgr.failed_accounts
    is_paused,              \* st.session_state.is_paused
    should_stop,            \* st.session_state.should_stop
    is_sending,             \* st.session_state.is_sending
    pc,                     \* position of the send loop
    i,                      \* index of the recipient being processed (0-based)
    acc,                    \* loop variable acc (an account or None)
    acc_id,                 \* loop variable acc_id
    uid,                    \* loop variable uid
    sent,                   \* running total of sent
    failed,                 \* running total of failed
    rows,                   \* the rows list of this run
    sent_log,               \* contents of sent_log.csv
    uuid_map,               \* contents of uuid_map.csv
    messages,               \* st.warning / st.error banners shown by the loop
    selections,             \* history: every call of get_next_available_account
    attempts,               \* history: every call of send_via_smtp
    counters0,              \* history: the store when the run started
    disturbances,           \* history: failed sends, presses, date changes
    probe                   \* scratch record of the store-operation harness

vars == <<accounts, daily_limit, raw_list, runs, recipients, today, counters,
          counters_file, current_index,
          rate_limited_accounts, failed_accounts, is_paused, should_stop,
          is_sending, pc, i, acc, acc_id, uid, sent, failed, rows, sent_log,
          uuid_map, messages, selections, attempts, counters0, disturbances,
          probe>>

\* Groups of variables, for the UNCHANGED clauses.
configVars == <<accounts, daily_limit, raw_list, runs, recipients, counters0,
                counters_file>>
managerVars == <<current_index, rate_limited_accounts, failed_accounts>>
flagVars == <<is_paused, should_stop, is_sending>>
localVars == <<acc, acc_id, uid>>
resultVars == <<i, sent, failed, rows, sent_log>>
historyVars == <<selections, attempts>>

\* ---------------------------------------------------------------- accounts
\* An account record as loaded from the uploaded JSON: odd accounts carry an
\* email (and a username), even ones only a username (with a from_email, as in
\* the documented TurboSMTP format, so that build_message finds a sender).
\* Account identifiers are unique.
Account(k) ==
    [email    |-> IF k % 2 = 1 THEN k ELSE None,
     username |-> IF k % 2 = 1 THEN 100 + k ELSE k,
     name     |-> 200 + k]

get_account_id(account) ==
    IF account.email # None THEN account.email
    ELSE IF account.username # None THEN account.username
    ELSE account.name

\* --------------------------------------------------- daily counter store
read_sent_counters(store) == store

\* Variant: the stored date is not compared with the current date.
get_sent_today_ignore_date(store, account_id, day) ==
    LET ctrs == read_sent_counters(store) IN
    IF account_id \notin DOMAIN ctrs
    THEN 0
    ELSE ctrs[account_id].sent_today

get_sent_today(store, account_id, day) ==
    LET ctrs == read_sent_counters(store) IN
    IF account_id \notin DOMAIN ctrs \/ ctrs[account_id].date # day
    THEN 0
    ELSE ctrs[account_id].sent_today

\* Variant: the record is overwritten with delta instead of being added to.
update_sent_counter_overwrite(store, account_id, delta, day) ==
    LET ctrs == read_sent_counters(store)
        rec == [date |-> day, sent_today |-> delta]
    IN  [a \in DOMAIN ctrs \cup {account_id} |->
            IF a = account_id THEN rec ELSE ctrs[a]]

\* Variant: a stale record keeps its count when its date is renewed.
update_sent_counter_no_reset(store, account_id, delta, day) ==
    LET ctrs == read_sent_counters(store)
        fresh == IF account_id \notin DOMAIN ctrs
                 THEN [date |-> day, sent_today |-> 0]
                 ELSE [ctrs[account_id] EXCEPT !.date = day]
        rec == [fresh EXCEPT !.sent_today = @ + delta]
    IN  [a \in DOMAIN ctrs \cup {account_id} |->
            IF a = account_id THEN rec ELSE ctrs[a]]

update_sent_counter(store, account_id, delta, day) ==
    LET ctrs == read_sent_counters(store)
        fresh == IF account_id \notin DOMAIN ctrs \/ ctrs[account_id].date # day
                 THEN [date |-> day, sent_today |-> 0]
                 ELSE ctrs[account_id]
        rec == [fresh EXCEPT !.sent_today = @ + delta]
    IN  [a \in DOMAIN ctrs \cup {account_id} |->
            IF a = account_id THEN rec ELSE ctrs[a]]

\* ------------------------------------------------------ error classification
\* An error text is modelled by the set of indicator phrases it contains.
rate_indicators ==
    {"rate limit", "too many", "quota", "429", "421", "450", "451",
     "temporarily blocked", "slow down", "limit exceeded",
     "daily limit", "hourly limit", "throttle", "try again later"}

auth_indicators ==
    {"authentication failed", "invalid credentials", "auth",
     "username and password not accepted", "login failed",
     "bad credentials", "535", "incorrect authentication"}

is_rate_limit_error(error_msg) == \E ind \in rate_indicators : ind \in error_msg

\* Variant: every error text counts as an authentication error.
is_auth_error_any(error_msg) == error_msg # NoError

is_auth_error(error_msg) == \E ind \in auth_indicators : ind \in error_msg

\* The error texts send_via_smtp returns in the model.
Errors == {{"429"}, {"535"}, {"421", "auth"}, {"connection refused"}}

\* ------------------------------------------------------ SMTPAccountManager
\* Variant: failed accounts are not skipped.
RECURSIVE scan_accounts_ignore_failed(_, _, _, _, _, _, _, _)
scan_accounts_ignore_failed(accts, idx, tries, rl, fa, store, day, limit) ==
    IF tries >= Len(accts)
    THEN [acc |-> NoAccount, index |-> idx]
    ELSE LET a == accts[idx + 1]
             id == get_account_id(a)
             nidx == (idx + 1) % Len(accts)
         IN  IF id \in rl
             THEN scan_accounts_ignore_failed(accts, nidx, tries + 1, rl, fa,
                                              store, day, limit)
             ELSE IF get_sent_today(store, id, day) >= limit
             THEN scan_accounts_ignore_failed(accts, nidx, tries + 1, rl, fa,
                                              store, day, limit)
             ELSE [acc |-> a, index |-> nidx]

\* Variant: an account is skipped only when its count is above the limit.
RECURSIVE scan_accounts_off_by_one(_, _, _, _, _, _, _, _)
scan_accounts_off_by_one(accts, idx, tries, rl, fa, store, day, limit) ==
    IF tries >= Len(accts)
    THEN [acc |-> NoAccount, index |-> idx]
    ELSE LET a == accts[idx + 1]
             id == get_account_id(a)
             nidx == (idx + 1) % Len(accts)
         IN  IF id \in rl \/ id \in fa
             THEN scan_accounts_off_by_one(accts, nidx, tries + 1, rl, fa,
                                           store, day, limit)
             ELSE IF get_sent_today(store, id, day) > limit
             THEN scan_accounts_off_by_one(accts, nidx, tries + 1, rl, fa,
                                           store, day, limit)
             ELSE [acc |-> a, index |-> nidx]

\* Variant: the cursor is not moved past the account that is returned.
RECURSIVE scan_accounts_cursor_stays(_, _, _, _, _, _, _, _)
scan_accounts_cursor_stays(accts, idx, tries, rl, fa, store, day, limit) ==
    IF tries >= Len(accts)
    THEN [acc |-> NoAccount, index |-> idx]
    ELSE LET a == accts[idx + 1]
             id == get_account_id(a)
             nidx == (idx + 1) % Len(accts)
         IN  IF id \in rl \/ id \in fa
             THEN scan_accounts_cursor_stays(accts, nidx, tries + 1, rl, fa,
                                             store, day, limit)
             ELSE IF get_sent_today(store, id, day) >= limit
             THEN scan_accounts_cursor_stays(accts, nidx, tries + 1, rl, fa,
                                             store, day, limit)
             ELSE [acc |-> a, index |-> idx]

RECURSIVE scan_accounts(_, _, _, _, _, _, _, _)
scan_accounts(accts, idx, tries, rl, fa, store, day, limit) ==
    IF tries >= Len(accts)
    THEN [acc |-> NoAccount, index |-> idx]
    ELSE LET a == accts[idx + 1]
             id == get_account_id(a)
             nidx == (idx + 1) % Len(accts)
         IN  IF id \in rl \/ id \in fa
             THEN scan_accounts(accts, nidx, tries + 1, rl, fa, store, day, limit)
             ELSE IF get_sent_today(store, id, day) >= limit
             THEN scan_accounts(accts, nidx, tries + 1, rl, fa, store, day, limit)
             ELSE [acc |-> a, index |-> nidx]

get_next_available_account(accts, idx, rl, fa, store, day, limit) ==
    scan_accounts(accts, idx, 0, rl, fa, store, day, limit)


\* Variant: the mark is lost.
mark_rate_limited_forgets(rl, account_id) == rl

mark_rate_limited(rl, account_id) == rl \cup {account_id}

mark_failed(fa, account_id) == fa \cup {account_id}

\* ------------------------------------------------------------ initial state
\* ensure_sent_counters has given every account a record; a record is of the
\* current date or stale.
StoredRecords ==
    {[date |-> Today0, sent_today |-> c] : c \in {0, 1}}
        \cup {[date |-> Yesterday, sent_today |-> 1]}

NoProbe == [phase |-> "none"]

\* The state at the start of the send loop (Start pressed, manager built).
Init ==
    /\ \E n \in 1..MaxAccounts : accounts = [k \in 1..n |-> Account(k)]
    /\ daily_limit \in 1..MaxLimit
    /\ raw_list = <<>>
    /\ runs = <<>>
    /\ recipients = [k \in 1..NumRecipients |-> k]
    /\ today = Today0
    /\ counters \in [{get_account_id(accounts[k]) : k \in 1..Len(accounts)}
                        -> StoredRecords]
    /\ counters_file = "present"
    /\ current_index = 0
    /\ rate_limited_accounts = {}
    /\ failed_accounts = {}
    /\ is_paused = FALSE
    /\ should_stop = FALSE
    /\ is_sending = TRUE
    /\ pc = "top"
    /\ i = 0
    /\ acc = NoAccount
    /\ acc_id = None
    /\ uid = None
    /\ sent = 0
    /\ failed = 0
    /\ rows = <<>>
    /\ sent_log = <<>>
    /\ uuid_map = <<>>
    /\ messages = <<>>
    /\ selections = <<>>
    /\ attempts = <<>>
    /\ counters0 = counters
    /\ disturbances = 0
    /\ probe = NoProbe

\* ------------------------------------------------------------ loop helpers
\* The accounts a selection may return, as get_next_available_account tests it.
EligibleIds(rl, fa, store, day) ==
    {id \in {get_account_id(accounts[k]) : k \in 1..Len(accounts)} :
        /\ id \notin rl
        /\ id \notin fa
        /\ get_sent_today(store, id, day) < daily_limit}

\* History record of one call of get_next_available_account: the cursor before
\* and after, the account returned, the number of sends made before the call.
SelectionRecord(sel, rl, fa, retry) ==
    [from |-> current_index, to |-> sel.index,
     acc |-> IF sel.acc = NoAccount THEN None ELSE get_account_id(sel.acc),
     recipient |-> recipients[i + 1], retry |-> retry,
     after |-> IF retry THEN Len(attempts) + 1 ELSE Len(attempts),
     eligible |-> EligibleIds(rl, fa, counters, today)]

\* What send_via_smtp can return: success, or an error.
SendOutcomes ==
    {[ok |-> TRUE, error |-> NoError]}
        \cup (IF disturbances < MaxDisturbances
              THEN {[ok |-> FALSE, error |-> e] : e \in Errors}
              ELSE {})

record_attempt(out, retry) ==
    /\ attempts' = Append(attempts,
           [recipient |-> recipients[i + 1], account |-> acc_id,
            ok |-> out.ok, error |-> out.error, retry |-> retry,
            stop |-> should_stop])
    /\ disturbances' = IF out.ok THEN disturbances ELSE disturbances + 1

\* Variant: the counter is increased for a failed send as well.
log_and_count_counts_failed(account_id, out) ==
    LET row == [recipient |-> recipients[i + 1], account |-> account_id,
                uuid |-> uid,
                status |-> IF out.ok THEN "sent" ELSE "failed",
                error |-> out.error]
    IN  /\ sent_log' = Append(sent_log, row)
        /\ rows' = Append(rows, row)
        /\ counters' = update_sent_counter(counters, account_id, 1, today)
        /\ sent' = IF out.ok THEN sent + 1 ELSE sent
        /\ failed' = IF out.ok THEN failed ELSE failed + 1
        /\ i' = i + 1
        /\ pc' = IF i + 1 < Len(recipients) THEN "top" ELSE "finally"

\* Variant: the loop does not move on to the next recipient.
log_and_count_stays(account_id, out) ==
    LET row == [recipient |-> recipients[i + 1], account |-> account_id,
                uuid |-> uid,
                status |-> IF out.ok THEN "sent" ELSE "failed",
                error |-> out.error]
    IN  /\ sent_log' = Append(sent_log, row)
        /\ rows' = Append(rows, row)
        /\ counters' = IF out.ok
                       THEN update_sent_counter(counters, account_id, 1, today)
                       ELSE counters
        /\ sent' = IF out.ok THEN sent + 1 ELSE sent
        /\ failed' = IF out.ok THEN failed ELSE failed + 1
        /\ i' = i
        /\ pc' = "top"

\* Variant: the row is appended to the log twice.
log_and_count_logs_twice(account_id, out) ==
    LET row == [recipient |-> recipients[i + 1], account |-> account_id,
                uuid |-> uid,
                status |-> IF out.ok THEN "sent" ELSE "failed",
                error |-> out.error]
    IN  /\ sent_log' = Append(Append(sent_log, row), row)
        /\ rows' = Append(rows, row)
        /\ counters' = IF out.ok
                       THEN update_sent_counter(counters, account_id, 1, today)
                       ELSE counters
        /\ sent' = IF out.ok THEN sent + 1 ELSE sent
        /\ failed' = IF out.ok THEN failed ELSE failed + 1
        /\ i' = i + 1
        /\ pc' = IF i + 1 < Len(recipients) THEN "top" ELSE "finally"

\* Lines 590-607 and the end of the iteration: the log row, the counter
\* update, the totals and the step to the next recipient.
log_and_count(account_id, out) ==
    LET row == [recipient |-> recipients[i + 1], account |-> account_id,
                uuid |-> uid,
                status |-> IF out.ok THEN "sent" ELSE "failed",
                error |-> out.error]
    IN  /\ sent_log' = Append(sent_log, row)
        /\ rows' = Append(rows, row)
        /\ counters' = IF out.ok
                       THEN update_sent_counter(counters, account_id, 1, today)
                       ELSE counters
        /\ sent' = IF out.ok THEN sent + 1 ELSE sent
        /\ failed' = IF out.ok THEN failed ELSE failed + 1
        /\ i' = i + 1
        /\ pc' = IF i + 1 < Len(recipients) THEN "top" ELSE "finally"

\* ------------------------------------------------------------ the send loop
\* Lines 548-570: pause wait, stop check, selection, uuid map row.
BeginIteration ==
    /\ pc = "top"
    /\ ~is_paused
    /\ IF should_stop
       THEN /\ messages' = Append(messages, "stopped")
            /\ pc' = "finally"
            /\ UNCHANGED <<current_index, localVars, uuid_map, selections>>
       ELSE LET sel == get_next_available_account(accounts, current_index,
                           rate_limited_accounts, failed_accounts,
                           counters, today, daily_limit)
            IN  /\ current_index' = sel.index
                /\ selections' = Append(selections,
                       SelectionRecord(sel, rate_limited_accounts,
                                       failed_accounts, FALSE))
                /\ acc' = sel.acc
                /\ IF sel.acc = NoAccount
                   THEN /\ messages' = Append(messages, "exhausted")
                        /\ pc' = "finally"
                        /\ UNCHANGED <<acc_id, uid, uuid_map>>
                   ELSE /\ acc_id' = get_account_id(sel.acc)
                        /\ uid' = i + 1
                        /\ uuid_map' = Append(uuid_map,
                               [uuid |-> i + 1, recipient |-> recipients[i + 1],
                                account |-> get_account_id(sel.acc)])
                        /\ pc' = "send"
                        /\ UNCHANGED messages
    /\ UNCHANGED <<configVars, today, counters, rate_limited_accounts,
                   failed_accounts, flagVars, resultVars, attempts,
                   disturbances, probe>>

\* Lines 576-580 / 583-587 for a failed first attempt that is classified: the
\* account is marked (rl, fa are the sets after the mark), the next account is
\* selected, and the loop either goes on to the second send or falls into the
\* row construction with acc = None, where acc.get raises (line 595).
reselect_after(rl, fa) ==
    LET sel == get_next_available_account(accounts, current_index, rl, fa,
                                          counters, today, daily_limit)
    IN  /\ rate_limited_accounts' = rl
        /\ failed_accounts' = fa
        /\ current_index' = sel.index
        /\ selections' = Append(selections, SelectionRecord(sel, rl, fa, TRUE))
        /\ acc' = sel.acc
        /\ IF sel.acc # NoAccount
           THEN /\ acc_id' = get_account_id(sel.acc)
                /\ pc' = "resend"
                /\ UNCHANGED messages
           ELSE /\ messages' = Append(messages, "exception")
                /\ pc' = "finally"
                /\ UNCHANGED acc_id
        /\ UNCHANGED <<counters, resultVars>>

\* Variant: the stop flag is read before the send as well, and the recipient
\* is given up when it is set.
Send_checks_stop ==
    /\ pc = "send"
    /\ IF should_stop
       THEN /\ pc' = "finally"
            /\ UNCHANGED <<counters, managerVars, localVars, resultVars,
                           messages, historyVars, disturbances>>
       ELSE \E out \in SendOutcomes :
            /\ record_attempt(out, FALSE)
            /\ IF ~out.ok /\ is_rate_limit_error(out.error)
               THEN reselect_after(
                        mark_rate_limited(rate_limited_accounts, acc_id),
                        failed_accounts)
               ELSE IF ~out.ok /\ is_auth_error(out.error)
               THEN reselect_after(rate_limited_accounts,
                                   mark_failed(failed_accounts, acc_id))
               ELSE /\ log_and_count(acc_id, out)
                    /\ UNCHANGED <<managerVars, selections, acc, acc_id,
                                   messages>>
    /\ UNCHANGED <<configVars, today, flagVars, uid, uuid_map, probe>>

\* Lines 572-607: the first send of a recipient and what follows it.
Send ==
    /\ pc = "send"
    /\ \E out \in SendOutcomes :
        /\ record_attempt(out, FALSE)
        /\ IF ~out.ok /\ is_rate_limit_error(out.error)
           THEN reselect_after(mark_rate_limited(rate_limited_accounts, acc_id),
                               failed_accounts)
           ELSE IF ~out.ok /\ is_auth_error(out.error)
           THEN reselect_after(rate_limited_accounts,
                               mark_failed(failed_accounts, acc_id))
           ELSE /\ log_and_count(acc_id, out)
                /\ UNCHANGED <<managerVars, selections, acc, acc_id, messages>>
    /\ UNCHANGED <<configVars, today, flagVars, uid, uuid_map, probe>>

\* Lines 581 / 588 and 590-607: the second send of a recipient.
Resend ==
    /\ pc = "resend"
    /\ \E out \in SendOutcomes :
        /\ record_attempt(out, TRUE)
        /\ log_and_count(acc_id, out)
    /\ UNCHANGED <<configVars, today, managerVars, flagVars, localVars,
                   uuid_map, messages, selections, probe>>

\* Lines 644-662: the finally block.
Finally ==
    /\ pc = "finally"
    /\ is_sending' = FALSE
    /\ is_paused' = FALSE
    /\ pc' = "done"
    /\ messages' = Append(messages, "complete")
    /\ UNCHANGED <<configVars, today, counters, managerVars, should_stop,
                   localVars, resultVars, uuid_map, historyVars, disturbances,
                   probe>>

\* ------------------------------------------------------------ environment
\* Lines 514-515: the Pause button.
PressPause ==
    /\ is_sending /\ ~is_paused
    /\ disturbances < MaxDisturbances
    /\ is_paused' = TRUE
    /\ disturbances' = disturbances + 1
    /\ UNCHANGED <<configVars, today, counters, managerVars, should_stop,
                   is_sending, pc, localVars, resultVars, uuid_map, messages,
                   historyVars, probe>>

\* Lines 517-518: the Resume button.
PressResume ==
    /\ is_paused
    /\ is_paused' = FALSE
    /\ UNCHANGED <<configVars, today, counters, managerVars, should_stop,
                   is_sending, pc, localVars, resultVars, uuid_map, messages,
                   historyVars, disturbances, probe>>

\* Lines 520-521: the Stop button.
PressStop ==
    /\ is_sending /\ ~should_stop
    /\ disturbances < MaxDisturbances
    /\ should_stop' = TRUE
    /\ disturbances' = disturbances + 1
    /\ UNCHANGED <<configVars, today, counters, managerVars, is_paused,
                   is_sending, pc, localVars, resultVars, uuid_map, messages,
                   historyVars, probe>>

\* The wall-clock date changes (midnight passes) during the run.  Failed
\* sends, Pause and Stop presses and date changes share one budget,
\* MaxDisturbances.
DayRoll ==
    /\ pc \in {"top", "send", "resend"}
    /\ disturbances < MaxDisturbances
    /\ today' = today + 1
    /\ disturbances' = disturbances + 1
    /\ UNCHANGED <<configVars, counters, managerVars, flagVars, pc, localVars,
                   resultVars, uuid_map, messages, historyVars, probe>>

Next ==
    \/ BeginIteration
    \/ Send
    \/ Resend
    \/ Finally
    \/ PressPause
    \/ PressResume
    \/ PressStop
    \/ DayRoll

Spec == Init /\ [][Next]_vars

\* ------------------------------------------------ the send loop, scheduled
\* The same loop on a shorter list, with the scheduling the code has: the loop
\* is sequential code, so each of its steps is taken once it can be (every
\* send_via_smtp call is taken to return), and a pause is ended by Resume.
InitLive ==
    /\ \E n \in 1..MaxAccounts : accounts = [k \in 1..n |-> Account(k)]
    /\ daily_limit \in 1..MaxLimit
    /\ raw_list = <<>>
    /\ runs = <<>>
    /\ recipients = [k \in 1..LiveRecipients |-> k]
    /\ today = Today0
    /\ counters \in [{get_account_id(accounts[k]) : k \in 1..Len(accounts)}
                        -> StoredRecords]
    /\ counters_file = "present"
    /\ current_index = 0
    /\ rate_limited_accounts = {}
    /\ failed_accounts = {}
    /\ is_paused = FALSE
    /\ should_stop = FALSE
    /\ is_sending = TRUE
    /\ pc = "top"
    /\ i = 0
    /\ acc = NoAccount
    /\ acc_id = None
    /\ uid = None
    /\ sent = 0
    /\ failed = 0
    /\ rows = <<>>
    /\ sent_log = <<>>
    /\ uuid_map = <<>>
    /\ messages = <<>>
    /\ selections = <<>>
    /\ attempts = <<>>
    /\ counters0 = counters
    /\ disturbances = 0
    /\ probe = NoProbe

SpecLive ==
    /\ InitLive
    /\ [][Next]_vars
    /\ WF_vars(BeginIteration)
    /\ WF_vars(Send)
    /\ WF_vars(Resend)
    /\ WF_vars(Finally)
    /\ WF_vars(PressResume)

\* ------------------------------------------- the counter store on its own
\* get_sent_today and update_sent_counter applied to any store the program
\* can have written: a record per known account or none, of any date.
StoreRecords ==
    {[date |-> d, sent_today |-> c] : d \in Yesterday..MaxDay, c \in 0..MaxLimit}

\* Two account ids are enough for one operation and its frame.
StoreIds == {get_account_id(Account(1)), get_account_id(Account(2))}

Stores ==
    UNION {[ids -> StoreRecords] : ids \in SUBSET StoreIds}

\* The states of sent_counters.json as the store functions meet it.
FileStates == {"present", "missing", "corrupt"}

\* Line 111: a missing file reads as the empty dictionary.
file_counters(file, store) == IF file = "missing" THEN <<>> ELSE store

IdleProbe ==
    [phase |-> "idle", op |-> "none", file |-> "present", account |-> None,
     delta |-> 0, pre |-> 0, post |-> 0,
     day_pre |-> 0, day_upd |-> 0, day_post |-> 0]

InitStore ==
    /\ accounts = <<>>
    /\ daily_limit = 1
    /\ raw_list = <<>>
    /\ runs = <<>>
    /\ recipients = <<>>
    /\ today \in Today0..MaxDay
    /\ counters_file \in FileStates
    /\ counters \in IF counters_file = "present" THEN Stores ELSE {<<>>}
    /\ current_index = 0
    /\ rate_limited_accounts = {}
    /\ failed_accounts = {}
    /\ is_paused = FALSE
    /\ should_stop = FALSE
    /\ is_sending = FALSE
    /\ pc = "store"
    /\ i = 0
    /\ acc = NoAccount
    /\ acc_id = None
    /\ uid = None
    /\ sent = 0
    /\ failed = 0
    /\ rows = <<>>
    /\ sent_log = <<>>
    /\ uuid_map = <<>>
    /\ messages = <<>>
    /\ selections = <<>>
    /\ attempts = <<>>
    /\ counters0 = counters
    /\ disturbances = 0
    /\ probe = IdleProbe

StoreFrame ==
    UNCHANGED <<accounts, daily_limit, raw_list, runs, recipients, managerVars,
                flagVars, pc,
                localVars, resultVars, uuid_map, messages, historyVars,
                disturbances>>

\* get_sent_today(account_id); json.load raises on a corrupt file (line 112).
StoreGet ==
    /\ pc = "store"
    /\ probe.phase = "idle"
    /\ \E a \in StoreIds :
        probe' =
            IF counters_file = "corrupt"
            THEN [IdleProbe EXCEPT !.phase = "error", !.op = "get",
                     !.file = counters_file, !.account = a, !.day_pre = today]
            ELSE [IdleProbe EXCEPT !.phase = "got", !.op = "get",
                     !.file = counters_file, !.account = a,
                     !.pre = get_sent_today(
                                 file_counters(counters_file, counters),
                                 a, today),
                     !.day_pre = today]
    /\ UNCHANGED <<today, counters, counters_file, counters0>>
    /\ StoreFrame

\* update_sent_counter(account_id, delta), on its own or after a
\* get_sent_today of the same account; json.load raises on a corrupt file
\* (line 112) and nothing is written; otherwise line 120 writes the file.
StoreUpdate ==
    /\ pc = "store"
    /\ probe.phase \in {"idle", "got"}
    /\ \E a \in StoreIds, d \in 1..MaxDelta :
        /\ probe.phase = "got" => a = probe.account
        /\ IF counters_file = "corrupt"
           THEN /\ probe' = [probe EXCEPT !.phase = "error", !.op = "update",
                                !.file = counters_file, !.account = a,
                                !.delta = d, !.day_upd = today]
                /\ UNCHANGED <<counters, counters_file>>
           ELSE /\ counters' = update_sent_counter(
                                   file_counters(counters_file, counters),
                                   a, d, today)
                /\ counters_file' = "present"
                /\ probe' = [probe EXCEPT !.phase = "updated",
                                !.op = "update", !.file = counters_file,
                                !.account = a, !.delta = d,
                                !.day_upd = today]
    /\ UNCHANGED <<today, counters0>>
    /\ StoreFrame

\* get_sent_today(account_id), after the update
StoreGetAfter ==
    /\ pc = "store"
    /\ probe.phase = "updated"
    /\ probe' = [probe EXCEPT !.phase = "checked",
                    !.post = get_sent_today(counters, probe.account, today),
                    !.day_post = today]
    /\ UNCHANGED <<today, counters, counters_file, counters0>>
    /\ StoreFrame

\* Midnight passes between two store operations.
StoreDayRoll ==
    /\ pc = "store"
    /\ probe.phase \notin {"checked", "error"}
    /\ today < MaxDay
    /\ today' = today + 1
    /\ UNCHANGED <<counters, counters_file, counters0, probe>>
    /\ StoreFrame

NextStore ==
    \/ StoreGet
    \/ StoreUpdate
    \/ StoreGetAfter
    \/ StoreDayRoll

SpecStore == InitStore /\ [][NextStore]_vars

\* ------------------------------------------------- the recipient sanitizer
\* A text is a sequence of characters.  The letters a-c and A-C and the digit
\* 1 stand for the ranges a-z, A-Z and 0-9 of the pattern of line 84.
LowerLetters == {"a", "b", "c"}
UpperLetters == {"A", "B", "C"}
Digits == {"1"}
Whitespace == {" ", "\t"}

\* The three parts of the pattern: local part, domain, top-level domain.
LocalChars ==
    LowerLetters \cup UpperLetters \cup Digits
        \cup {".", "_", "%", "+", "-", "'"}
DomainChars == LowerLetters \cup UpperLetters \cup Digits \cup {".", "-"}
TldChars == LowerLetters \cup UpperLetters
MinTldLen == 2

\* str.strip(): whitespace is removed at both ends only.
RECURSIVE lstrip(_)
lstrip(s) ==
    IF s = <<>> \/ Head(s) \notin Whitespace THEN s ELSE lstrip(Tail(s))

RECURSIVE rstrip(_)
rstrip(s) ==
    IF s = <<>> \/ s[Len(s)] \notin Whitespace
    THEN s
    ELSE rstrip(SubSeq(s, 1, Len(s) - 1))

strip(s) == rstrip(lstrip(s))

\* str.lower(), character by character.
LowerOf == [c \in UpperLetters |->
               IF c = "A" THEN "a" ELSE IF c = "B" THEN "b" ELSE "c"]

\* Variant: the case is kept.
lower_keeps_case(s) == s

lower(s) == [k \in 1..Len(s) |-> IF s[k] \in UpperLetters THEN LowerOf[s[k]]
                                                         ELSE s[k]]

\* re.match of ^local+@domain+\.tld{2,}$ on a text without a line break (the
\* sanitizer matches stripped texts only): p is the position of the @ and q
\* the position of the dot that starts the top-level domain.
re_match(s) ==
    \E p \in 1..Len(s), q \in 1..Len(s) :
        /\ p > 1
        /\ s[p] = "@"
        /\ \A k \in 1..(p - 1) : s[k] \in LocalChars
        /\ q > p + 1
        /\ s[q] = "."
        /\ \A k \in (p + 1)..(q - 1) : s[k] \in DomainChars
        /\ Len(s) - q >= MinTldLen
        /\ \A k \in (q + 1)..Len(s) : s[k] \in TldChars

is_valid_email(email) == email # <<>> /\ re_match(email)

\* The for loop of lines 88-92 over what is left of raw_list.
RECURSIVE sanitize_loop(_, _, _)
sanitize_loop(raw, cleaned, seen) ==
    IF raw = <<>>
    THEN cleaned
    ELSE LET r == lower(strip(Head(raw))) IN
         IF r # <<>> /\ is_valid_email(r) /\ r \notin seen
         THEN sanitize_loop(Tail(raw), Append(cleaned, r), seen \cup {r})
         ELSE sanitize_loop(Tail(raw), cleaned, seen)

sanitize_recipients(raw) == sanitize_loop(raw, <<>>, {})

\* Entries a list can hold: valid addresses in several spellings (case,
\* padding), and texts the pattern rejects.
RawEntries ==
    {<<"a", "@", "b", ".", "c", "c">>,
     <<"A", "@", "B", ".", "C", "C">>,
     <<" ", "a", "@", "b", ".", "c", "c", "\t">>,
     <<"b", "@", "b", ".", "c", "c">>,
     <<"B", "_", "1", "@", "a", "-", "b", ".", "c", "C", " ">>,
     <<"a", "@", "b", ".", "c">>,
     <<"a", " ", "b", "@", "b", ".", "c", "c">>,
     <<"a", "!", "@", "b", ".", "c", "c">>,
     <<"a", "@", "b", ".", "c", "1">>,
     <<"@", "b", ".", "c", "c">>,
     <<"a", "b", ".", "c", "c">>,
     <<" ", " ">>,
     <<>>}

InitSanitize ==
    /\ accounts = <<>>
    /\ daily_limit = 1
    /\ raw_list \in UNION {[1..n -> RawEntries] : n \in 0..MaxRawLen}
    /\ runs = <<>>
    /\ recipients = <<>>
    /\ today = Today0
    /\ counters = <<>>
    /\ counters_file = "present"
    /\ current_index = 0
    /\ rate_limited_accounts = {}
    /\ failed_accounts = {}
    /\ is_paused = FALSE
    /\ should_stop = FALSE
    /\ is_sending = FALSE
    /\ pc = "sanitize"
    /\ i = 0
    /\ acc = NoAccount
    /\ acc_id = None
    /\ uid = None
    /\ sent = 0
    /\ failed = 0
    /\ rows = <<>>
    /\ sent_log = <<>>
    /\ uuid_map = <<>>
    /\ messages = <<>>
    /\ selections = <<>>
    /\ attempts = <<>>
    /\ counters0 = counters
    /\ disturbances = 0
    /\ probe = NoProbe

\* Line 429: recipients = sanitize_recipients(recipients)
Sanitize ==
    /\ pc = "sanitize"
    /\ recipients' = sanitize_recipients(raw_list)
    /\ pc' = "sanitized"
    /\ UNCHANGED <<accounts, daily_limit, raw_list, runs, today, counters,
                   counters_file, counters0, managerVars, flagVars, localVars,
                   i, sent, failed, rows, sent_log, uuid_map, messages,
                   historyVars, disturbances, probe>>

NextSanitize == Sanitize

SpecSanitize == InitSanitize /\ [][NextSanitize]_vars

\* ------------------------------------- two runs against one counter store
\* Two campaign runs (two sessions of the app) share sent_counters.json.  Of
\* each run only its successful sends and the update_sent_counter call that
\* follows each (line 604) are kept; the daily limit is taken to be out of
\* reach.  update_sent_counter reads the file (line 115) and writes it back
\* (line 120) with nothing held in between.
RunIds == {1, 2}

IdleRun ==
    [pc |-> "idle", acc_id |-> None, counters |-> <<>>,
     sent |-> [a \in StoreIds |-> 0]]

RunSent(r) == runs[r].sent[get_account_id(Account(1))]
                  + runs[r].sent[get_account_id(Account(2))]

RaceProbe == [phase |-> "race", overlapped |-> FALSE]

InitRace ==
    /\ accounts = <<Account(1), Account(2)>>
    /\ daily_limit = 1
    /\ raw_list = <<>>
    /\ runs = [r \in RunIds |-> IdleRun]
    /\ recipients = <<>>
    /\ today = Today0
    /\ counters \in [StoreIds -> StoredRecords]
    /\ counters_file = "present"
    /\ current_index = 0
    /\ rate_limited_accounts = {}
    /\ failed_accounts = {}
    /\ is_paused = FALSE
    /\ should_stop = FALSE
    /\ is_sending = TRUE
    /\ pc = "race"
    /\ i = 0
    /\ acc = NoAccount
    /\ acc_id = None
    /\ uid = None
    /\ sent = 0
    /\ failed = 0
    /\ rows = <<>>
    /\ sent_log = <<>>
    /\ uuid_map = <<>>
    /\ messages = <<>>
    /\ selections = <<>>
    /\ attempts = <<>>
    /\ counters0 = counters
    /\ disturbances = 0
    /\ probe = RaceProbe

RaceFrame ==
    UNCHANGED <<accounts, daily_limit, raw_list, recipients, today,
                counters_file, counters0, managerVars, flagVars, pc,
                localVars, resultVars, uuid_map, messages, historyVars,
                disturbances>>

\* Lines 572 and 603-604: a send of run r through account a returned ok, and
\* the run enters update_sent_counter(a).
RaceSend ==
    /\ pc = "race"
    /\ \E r \in RunIds, a \in StoreIds :
        /\ runs[r].pc = "idle"
        /\ RunSent(r) < MaxRunSends
        /\ runs' = [runs EXCEPT ![r].pc = "read", ![r].acc_id = a,
                                ![r].sent[a] = @ + 1]
    /\ UNCHANGED <<counters, probe>>
    /\ RaceFrame

\* Line 115: counters = read_sent_counters().  The history flag overlapped
\* notes a read made while the other run is between its read and its write.
RaceRead ==
    /\ pc = "race"
    /\ \E r \in RunIds :
        /\ runs[r].pc = "read"
        /\ runs' = [runs EXCEPT ![r].pc = "write",
                                ![r].counters = read_sent_counters(counters)]
        /\ probe' = [probe EXCEPT !.overlapped =
                        @ \/ \E o \in RunIds \ {r} : runs[o].pc = "write"]
    /\ UNCHANGED counters
    /\ RaceFrame

\* Lines 116-120: the record is renewed or increased in the dictionary that
\* was read, and the whole dictionary is written to the file.
RaceWrite ==
    /\ pc = "race"
    /\ \E r \in RunIds :
        /\ runs[r].pc = "write"
        /\ counters' = update_sent_counter(runs[r].counters, runs[r].acc_id,
                                           1, today)
        /\ runs' = [runs EXCEPT ![r].pc = "idle", ![r].acc_id = None,
                                ![r].counters = <<>>]
    /\ UNCHANGED probe
    /\ RaceFrame

NextRace ==
    \/ RaceSend
    \/ RaceRead
    \/ RaceWrite

SpecRace == InitRace /\ [][NextRace]_vars

\* ================================================================= claims
\* Position p (0-based) of the rotation holds this account id.
IdAt(p) == get_account_id(accounts[p + 1])

NumAccounts == Len(accounts)

AllSendsOk == \A k \in 1..Len(attempts) : attempts[k].ok

\* C1: every call of get_next_available_account that returns an account
\* returns the first one, scanning forward from the cursor with wrap-around,
\* that is not rate-limited, not failed and below the daily limit, and leaves
\* the cursor right after it; it returns none only when no account is
\* eligible.
C1_FirstEligibleFromCursor ==
    \A k \in 1..Len(selections) :
        LET s == selections[k] IN
        IF s.acc = None
        THEN s.eligible = {}
        ELSE \E d \in 0..(NumAccounts - 1) :
                /\ IdAt((s.from + d) % NumAccounts) = s.acc
                /\ s.acc \in s.eligible
                /\ \A e \in 0..(d - 1) :
                      IdAt((s.from + e) % NumAccounts) \notin s.eligible
                /\ s.to = (s.from + d + 1) % NumAccounts

\* A selection that skipped an ineligible account and wrapped around.
C1_Witness ==
    \E k \in 1..Len(selections) :
        /\ selections[k].acc # None
        /\ IdAt(selections[k].from) \notin selections[k].eligible
        /\ selections[k].to <= selections[k].from
        /\ selections[k].to > 0

AllStartAtZero ==
    \A id \in DOMAIN counters0 : get_sent_today(counters0, id, Today0) = 0

TimesSelected(id) ==
    Cardinality({k \in 1..Len(selections) : selections[k].acc = id})

\* C2: with n accounts that all start at count 0, limit L, every send
\* succeeding and no change of date, selections 1..n*L return an account,
\* no account is returned more than L times, and selection n*L+1 returns none.
C2_ExhaustionAfterNTimesL ==
    (AllStartAtZero /\ AllSendsOk /\ today = Today0) =>
        /\ \A k \in 1..Len(selections) :
              /\ k <= NumAccounts * daily_limit => selections[k].acc # None
              /\ k = NumAccounts * daily_limit + 1 => selections[k].acc = None
        /\ Len(selections) <= NumAccounts * daily_limit + 1
        /\ \A id \in DOMAIN counters0 : TimesSelected(id) <= daily_limit

\* 2 accounts, limit 2: four selections return an account, the 5th none.
C2_Witness ==
    /\ AllStartAtZero /\ AllSendsOk /\ today = Today0
    /\ NumAccounts = 2 /\ daily_limit = 2
    /\ Len(selections) = 5
    /\ selections[5].acc = None
    /\ \A id \in DOMAIN counters0 : TimesSelected(id) = 2

\* ------------------------------------------------- attempts and recipients
RateLimitedAttempt(j) ==
    ~attempts[j].ok /\ is_rate_limit_error(attempts[j].error)

AuthFailedAttempt(j) ==
    ~attempts[j].ok /\ is_auth_error(attempts[j].error)

\* A failed attempt whose error text contains no indicator of either list.
UnclassifiedFailure(a) ==
    /\ ~a.ok
    /\ a.error \cap rate_indicators = {}
    /\ a.error \cap auth_indicators = {}

AttemptsFor(r) == {j \in 1..Len(attempts) : attempts[j].recipient = r}

RetriesFor(r) == {j \in AttemptsFor(r) : attempts[j].retry}

RowsFor(r) == {k \in 1..Len(sent_log) : sent_log[k].recipient = r}

\* The iteration of recipient r is over.
Finished(r) == r <= i \/ pc \in {"finally", "done"}

Shown(m) == \E k \in 1..Len(messages) : messages[k] = m

\* C3: an account whose send attempt (first or retry) failed with a
\* rate-limit error is returned by no later selection of the run.
C3_RateLimitedNeverSelectedAgain ==
    \A j \in 1..Len(attempts) : \A k \in 1..Len(selections) :
        (RateLimitedAttempt(j) /\ selections[k].after >= j)
            => selections[k].acc # attempts[j].account

\* C4: an account whose send attempt failed with an authentication error is
\* in failed_accounts, is returned by no later selection, and is used by no
\* later attempt for the same recipient.
C4_AuthFailedExcluded ==
    \A j \in 1..Len(attempts) :
        AuthFailedAttempt(j) =>
            /\ attempts[j].account \in failed_accounts
            /\ \A k \in 1..Len(selections) :
                  selections[k].after >= j
                      => selections[k].acc # attempts[j].account
            /\ \A j2 \in (j + 1)..Len(attempts) :
                  attempts[j2].recipient = attempts[j].recipient
                      => attempts[j2].account # attempts[j].account

\* C5: after a send attempt that failed with an authentication error no
\* further attempt is made for that recipient, and the recipient's log record
\* has status failed.
C5_AuthFailureEndsRecipient ==
    \A j \in 1..Len(attempts) :
        AuthFailedAttempt(j) =>
            LET r == attempts[j].recipient IN
            /\ \A j2 \in (j + 1)..Len(attempts) : attempts[j2].recipient # r
            /\ \A k \in RowsFor(r) : sent_log[k].status = "failed"

\* C6 as claimed: a rate-limited first attempt marks the account and is
\* followed by exactly one retry of the same recipient through a different
\* account; no recipient has more than two attempts.
C6_AlwaysRetriedOnce ==
    /\ \A j \in 1..Len(attempts) :
          (RateLimitedAttempt(j) /\ ~attempts[j].retry) =>
              LET r == attempts[j].recipient IN
              /\ attempts[j].account \in rate_limited_accounts
              /\ Finished(r) =>
                    /\ Cardinality(RetriesFor(r)) = 1
                    /\ \A j2 \in RetriesFor(r) :
                          attempts[j2].account # attempts[j].account
    /\ \A r \in 1..Len(recipients) : Cardinality(AttemptsFor(r)) <= 2

\* C6 (amended): a rate-limited first attempt marks the account and selects
\* again; if the selection returns an account it differs from the first one
\* and the recipient is retried exactly once, through it; if it returns none
\* no retry is made; no recipient has more than two attempts.
C6_RetriedOnceIfAccountLeft ==
    /\ \A j \in 1..Len(attempts) :
          (RateLimitedAttempt(j) /\ ~attempts[j].retry) =>
              LET r == attempts[j].recipient
                  again == {k \in 1..Len(selections) :
                               selections[k].retry /\ selections[k].after = j}
              IN  /\ attempts[j].account \in rate_limited_accounts
                  /\ Cardinality(again) = 1
                  /\ \A k \in again :
                        IF selections[k].acc # None
                        THEN /\ selections[k].acc # attempts[j].account
                             /\ Cardinality(RetriesFor(r)) <= 1
                             /\ Finished(r) => Cardinality(RetriesFor(r)) = 1
                             /\ \A j2 \in RetriesFor(r) :
                                   attempts[j2].account = selections[k].acc
                        ELSE RetriesFor(r) = {}
    /\ \A r \in 1..Len(recipients) : Cardinality(AttemptsFor(r)) <= 2

\* A rate-limited first attempt whose retry, through another account, failed.
C6_Witness ==
    \E j \in 1..Len(attempts) : \E j2 \in 1..Len(attempts) :
        /\ RateLimitedAttempt(j) /\ ~attempts[j].retry
        /\ attempts[j2].retry /\ ~attempts[j2].ok
        /\ attempts[j2].recipient = attempts[j].recipient
        /\ attempts[j2].account # attempts[j].account
        /\ Finished(attempts[j].recipient)

\* C7: a send attempt that fails with an error matching neither keyword list
\* adds a failed row for the recipient, leaves rate_limited_accounts and
\* failed_accounts as they were, makes no selection and no further attempt,
\* and moves the loop to the next recipient.
C7_UnclassifiedFailureStep ==
    [][(/\ Len(attempts') = Len(attempts) + 1
        /\ UnclassifiedFailure(attempts'[Len(attempts')]))
          => /\ rate_limited_accounts' = rate_limited_accounts
             /\ failed_accounts' = failed_accounts
             /\ selections' = selections
             /\ Len(sent_log') = Len(sent_log) + 1
             /\ sent_log'[Len(sent_log')].recipient = recipients[i + 1]
             /\ sent_log'[Len(sent_log')].account
                    = attempts'[Len(attempts')].account
             /\ sent_log'[Len(sent_log')].status = "failed"
             /\ failed' = failed + 1
             /\ sent' = sent
             /\ i' = i + 1
             /\ pc' = IF i + 1 < Len(recipients) THEN "top" ELSE "finally"]_vars

\* An unclassified failure of a first attempt, with an account marked earlier
\* in the run, after which the loop is at the next recipient.
C7_Witness ==
    /\ Len(attempts) > 0
    /\ UnclassifiedFailure(attempts[Len(attempts)])
    /\ ~attempts[Len(attempts)].retry
    /\ rate_limited_accounts # {}
    /\ pc = "top"
    /\ i = attempts[Len(attempts)].recipient
    /\ failed >= 1

NoAccountSkipped ==
    \A k \in 1..Len(selections) : selections[k].acc = IdAt(selections[k].from)

RowsThrough(id) ==
    Cardinality({k \in 1..Len(sent_log) :
                    sent_log[k].account = id /\ sent_log[k].status = "sent"})

\* C8: when every send succeeds, the date does not change and every selection
\* finds the account at the cursor eligible, recipient number k (0-based) is
\* sent through account k mod n and each account's count has grown by the
\* number of recipients routed to it.
C8_RoundRobinRouting ==
    (AllSendsOk /\ today = Today0 /\ NoAccountSkipped) =>
        /\ \A k \in 1..Len(sent_log) :
              /\ sent_log[k].recipient = recipients[k]
              /\ sent_log[k].account = IdAt((k - 1) % NumAccounts)
              /\ sent_log[k].status = "sent"
        /\ \A id \in DOMAIN counters0 :
              get_sent_today(counters, id, today)
                  = get_sent_today(counters0, id, Today0) + RowsThrough(id)

\* Accounts [A, B], limit 2, three recipients sent: A, B, A; counts A=2, B=1.
C8_Witness ==
    /\ AllSendsOk /\ today = Today0 /\ NoAccountSkipped /\ AllStartAtZero
    /\ NumAccounts = 2 /\ daily_limit = 2
    /\ Len(sent_log) = 3
    /\ sent_log[3].account = IdAt(0)
    /\ get_sent_today(counters, IdAt(0), today) = 2
    /\ get_sent_today(counters, IdAt(1), today) = 1

NumSkipped ==
    Cardinality({k \in 1..Len(sent_log) : sent_log[k].status = "skipped"})

\* C9: when the run ended because selection found no eligible account, that
\* recipient and every later one have a record with status skipped, and
\* sent + failed + skipped equals the number of recipients.
C9_SkippedRecorded ==
    (pc = "done" /\ Shown("exhausted")) =>
        /\ \A r \in (i + 1)..Len(recipients) :
              \E k \in RowsFor(r) : sent_log[k].status = "skipped"
        /\ sent + failed + NumSkipped = Len(recipients)

\* C10: get_sent_today right after update_sent_counter(account, 1), all on
\* one calendar date, returns the value it returned before the update plus 1.
C10_GetAfterIncrement ==
    (/\ probe.phase = "checked"
     /\ probe.delta = 1
     /\ probe.day_pre = probe.day_upd
     /\ probe.day_upd = probe.day_post)
        => probe.post = probe.pre + 1

\* An increment of a record of the current date that already counts sends.
C10_Witness ==
    /\ probe.phase = "checked"
    /\ probe.delta = 1
    /\ probe.day_pre = probe.day_post
    /\ probe.pre >= 1
    /\ probe.post = probe.pre + 1

\* The record of the probed account before the operation was missing or of
\* another date than the date the operation ran on.
MissingOrStale(day) ==
    \/ probe.account \notin DOMAIN counters0
    \/ counters0[probe.account].date # day

\* C11: get_sent_today returns 0 for an account that has no record or whose
\* record carries another date than the current one, whatever count is
\* stored, and it leaves the store (contents and file) as it was.
C11_GetStaleOrMissingIsZero ==
    probe.phase = "got" =>
        /\ counters = counters0
        /\ counters_file = probe.file
        /\ MissingOrStale(probe.day_pre) => probe.pre = 0

\* get_sent_today has answered 0 for a record of another date that counts
\* sends.
C11_Witness ==
    /\ probe.phase = "got"
    /\ probe.account \in DOMAIN counters0
    /\ counters0[probe.account].date # probe.day_pre
    /\ counters0[probe.account].sent_today >= 1
    /\ probe.pre = 0

\* C12: update_sent_counter(account, delta) on a missing record or a record
\* of another date leaves the account with the current date and the count
\* delta, and every other account's record as it was.
C12_UpdateStaleStartsFromDelta ==
    (probe.phase \in {"updated", "checked"} /\ MissingOrStale(probe.day_upd))
        => /\ DOMAIN counters = DOMAIN counters0 \cup {probe.account}
           /\ counters[probe.account] =
                  [date |-> probe.day_upd, sent_today |-> probe.delta]
           /\ \A b \in DOMAIN counters0 \ {probe.account} :
                  counters[b] = counters0[b]

\* A stale record that counted sends has been restarted at delta = 2 while
\* another account has a record.
C12_Witness ==
    /\ probe.phase = "updated"
    /\ probe.account \in DOMAIN counters0
    /\ counters0[probe.account].date # probe.day_upd
    /\ counters0[probe.account].sent_today >= 1
    /\ probe.delta = 2
    /\ counters[probe.account].sent_today = 2
    /\ DOMAIN counters0 \ {probe.account} # {}

\* C13: when the counter file is missing or corrupt, get_sent_today and
\* update_sent_counter end in an error: no count is reported for the account
\* and nothing is written in place of the stored counts.
C13_UnavailableStoreFailsLoudly ==
    (probe.phase # "idle" /\ probe.file \in {"missing", "corrupt"})
        => /\ probe.phase = "error"
           /\ counters = counters0
           /\ counters_file = probe.file

\* The text e is the raw entry r without the whitespace at its two ends and
\* with each upper-case letter replaced by its lower-case letter.
IsTrimmedLowered(r, e) ==
    \E p \in 0..Len(r) :
        /\ p + Len(e) <= Len(r)
        /\ \A k \in 1..p : r[k] \in Whitespace
        /\ \A k \in (p + Len(e) + 1)..Len(r) : r[k] \in Whitespace
        /\ \A k \in 1..Len(e) :
              e[k] = IF r[p + k] \in UpperLetters THEN LowerOf[r[p + k]]
                                                 ELSE r[p + k]
        /\ e # <<>> => (e[1] \notin Whitespace /\ e[Len(e)] \notin Whitespace)

\* The trimmed lowercased form(s) of the raw entry r, found among its pieces.
TrimmedLoweredForms(r) ==
    {e \in UNION {{[k \in 1..n |->
                      IF r[p + k] \in UpperLetters THEN LowerOf[r[p + k]]
                                                   ELSE r[p + k]] :
                    n \in 0..(Len(r) - p)} : p \in 0..Len(r)} :
        IsTrimmedLowered(r, e)}

\* The first position of raw_list whose trimmed lowercased form is e.
FirstOccurrence(e) ==
    CHOOSE j \in 1..Len(raw_list) :
        /\ IsTrimmedLowered(raw_list[j], e)
        /\ \A j2 \in 1..(j - 1) : ~IsTrimmedLowered(raw_list[j2], e)

\* C14: for every raw list the result of sanitize_recipients has no two
\* equal entries; every entry satisfies is_valid_email and is the trimmed
\* lowercased form of an input entry; the entries stand in the order of their
\* first occurrence in the input; and nothing else is dropped than invalid
\* and repeated entries.
C14_SanitizedList ==
    pc = "sanitized" =>
        /\ \A j, k \in 1..Len(recipients) :
              j # k => recipients[j] # recipients[k]
        /\ \A k \in 1..Len(recipients) :
              /\ is_valid_email(recipients[k])
              /\ \E j \in 1..Len(raw_list) :
                    IsTrimmedLowered(raw_list[j], recipients[k])
        /\ \A j, k \in 1..Len(recipients) :
              j < k => FirstOccurrence(recipients[j])
                           < FirstOccurrence(recipients[k])
        /\ \A j \in 1..Len(raw_list) :
              \A e \in TrimmedLoweredForms(raw_list[j]) :
                  is_valid_email(e)
                      => \E k \in 1..Len(recipients) : recipients[k] = e

\* Two spellings of one address (case, padding) were merged into the first
\* result entry, and a second address follows it.
C14_Witness ==
    /\ pc = "sanitized"
    /\ Len(raw_list) = 3
    /\ Len(recipients) = 2
    /\ raw_list[1] # recipients[1]
    /\ raw_list[2] # raw_list[1]
    /\ IsTrimmedLowered(raw_list[1], recipients[1])
    /\ IsTrimmedLowered(raw_list[2], recipients[1])
    /\ IsTrimmedLowered(raw_list[3], recipients[2])

\* C15: the send log has one record per delivery attempt, retries included:
\* a recipient whose iteration is over has as many records as attempts, and
\* each of its attempts has a record naming the account that attempt used.
C15_OneRecordPerAttempt ==
    \A r \in 1..i :
        /\ Cardinality(RowsFor(r)) = Cardinality(AttemptsFor(r))
        /\ \A j \in AttemptsFor(r) :
              \E k \in RowsFor(r) : sent_log[k].account = attempts[j].account

\* The recipients for which send_via_smtp was called at least once.
Attempted == {r \in 1..Len(recipients) : AttemptsFor(r) # {}}

\* C16: a run that ends with recipients left over ends because a selection
\* found no account (the re-selection after a rate-limited or auth-failed
\* first attempt included) or because stop was seen; it ends with the
\* summary, and every recipient that had a delivery attempt has a log record
\* and is counted in sent or failed.
C16_ExhaustionEndsWithFullLog ==
    pc = "done" =>
        /\ Shown("complete")
        /\ i < Len(recipients) =>
              \/ Shown("stopped")
              \/ \E k \in 1..Len(selections) : selections[k].acc = None
        /\ \A r \in Attempted : RowsFor(r) # {}
        /\ sent + failed = Cardinality(Attempted)

\* C17: the stop flag is read only at the start of an iteration.  With stop
\* signaled, the loop in its send steps still makes the delivery attempt of
\* the recipient in hand, and the recipient is finished as without stop: it
\* gets its log row, and its account's counter grows if the row says sent
\* (the iteration is broken off only where a re-selection found no account);
\* the next start of an iteration then ends the loop without a selection or
\* a delivery attempt, so no later recipient is attempted.
C17_StopSeenAtIterationStart ==
    [][should_stop =>
        /\ (pc \in {"send", "resend"} /\ pc' # pc) =>
              /\ Len(attempts') = Len(attempts) + 1
              /\ attempts'[Len(attempts')].recipient = recipients[i + 1]
              /\ \/ pc' = "resend"
                 \/ /\ pc' = "finally"
                    /\ i' = i
                    /\ selections'[Len(selections')].acc = None
                 \/ /\ i' = i + 1
                    /\ Len(sent_log') = Len(sent_log) + 1
                    /\ sent_log'[Len(sent_log')].recipient = recipients[i + 1]
                    /\ sent_log'[Len(sent_log')].status = "sent" =>
                          get_sent_today(counters', acc_id', today)
                              = get_sent_today(counters, acc_id', today) + 1
        /\ (pc = "top" /\ pc' # pc) =>
              /\ pc' = "finally"
              /\ UNCHANGED <<attempts, selections, sent_log, counters, i>>
    ]_vars

\* Stop was signaled while a recipient's send was under way; the send was
\* made and logged, the loop then stopped, and recipients are left over.
C17_Witness ==
    /\ pc = "done"
    /\ Shown("stopped")
    /\ i < Len(recipients)
    /\ \E j \in 1..Len(attempts) :
          /\ attempts[j].stop
          /\ attempts[j].ok
          /\ attempts[j].recipient = recipients[i]
          /\ sent_log[Len(sent_log)].recipient = recipients[i]
          /\ sent_log[Len(sent_log)].status = "sent"

\* The accounts a selection passed over before it returned (all of them when
\* it returned none).
SkippedBy(sel) ==
    LET n == NumAccounts
        k == IF sel.acc = None THEN n ELSE (sel.to + n - 1 - sel.from) % n
    IN  {IdAt((sel.from + d) % n) : d \in 0..(k - 1)}

\* C18: quota exhaustion is not sticky.  A selection made when an account's
\* record carries another date than the current one (its count of that date
\* having reached the limit or not) does not pass over the account unless it
\* is rate-limited or failed, so a selection that reaches it returns it; and
\* no step of a run removes a rate-limited or failed mark.
C18_QuotaNotSticky ==
    [][/\ rate_limited_accounts \subseteq rate_limited_accounts'
       /\ failed_accounts \subseteq failed_accounts'
       /\ Len(selections') > Len(selections) =>
             LET sel == selections'[Len(selections')] IN
             \A p \in 0..(NumAccounts - 1) :
                 (/\ IdAt(p) \notin rate_limited_accounts'
                  /\ IdAt(p) \notin failed_accounts'
                  /\ counters[IdAt(p)].date # today)
                     => /\ sel.acc # None
                        /\ IdAt(p) \notin SkippedBy(sel)
    ]_vars

\* An account that a selection passed over for its count alone was returned
\* by a later selection, the date having changed in between.
C18_Witness ==
    \E k1, k2 \in 1..Len(selections) :
        /\ k1 < k2
        /\ today # Today0
        /\ selections[k2].acc \in SkippedBy(selections[k1])
        /\ selections[k2].acc \notin rate_limited_accounts
        /\ selections[k2].acc \notin failed_accounts
        /\ counters0[selections[k2].acc].date = Today0
        /\ counters0[selections[k2].acc].sent_today >= daily_limit

\* The position of recipient r in the list (the entries are distinct).
PositionOf(r) == CHOOSE m \in 1..Len(recipients) : recipients[m] = r

\* The rows of the log that say sent and name account id.
SentRowsOf(id) ==
    {k \in 1..Len(sent_log) :
        sent_log[k].account = id /\ sent_log[k].status = "sent"}

\* C19: recipients are processed in list order, one at a time.  The k-th log
\* row is the row of the k-th recipient, so no recipient has two rows; every
\* selection, uuid map row and delivery attempt made so far is for one of
\* the finished recipients or for the one in hand, and none is for the next
\* recipient while the loop stands at the start of an iteration; the
\* counters (on the date the run started) already count every sent row.
C19_InOrderOneAtATime ==
    /\ Len(sent_log) = i
    /\ \A k \in 1..Len(sent_log) : sent_log[k].recipient = recipients[k]
    /\ LET inHand == IF pc = "top" THEN i ELSE i + 1 IN
       /\ \A j \in 1..Len(attempts) :
             PositionOf(attempts[j].recipient) <= inHand
       /\ \A j \in 1..Len(selections) :
             PositionOf(selections[j].recipient) <= inHand
       /\ \A j \in 1..Len(uuid_map) :
             PositionOf(uuid_map[j].recipient) <= inHand
    /\ \A j1, j2 \in 1..Len(attempts) :
          j1 < j2 => PositionOf(attempts[j1].recipient)
                         <= PositionOf(attempts[j2].recipient)
    /\ today = Today0 =>
          \A id \in DOMAIN counters :
              get_sent_today(counters, id, today)
                  = get_sent_today(counters0, id, today)
                        + Cardinality(SentRowsOf(id))

\* A whole list was processed, one recipient of it with a retry.
C19_Witness ==
    /\ pc = "done"
    /\ i = Len(recipients)
    /\ Len(sent_log) = Len(recipients)
    /\ \E r \in 1..Len(recipients) : Cardinality(AttemptsFor(recipients[r])) = 2

\* The iterations of the for loop started so far: the finished ones and the
\* one in hand or broken off.
Iterations ==
    IF pc = "top" \/ (pc \in {"finally", "done"} /\ i = Len(recipients))
    THEN i
    ELSE i + 1

\* A finished run ended for one of the three reasons.
EndedForReason ==
    pc = "done" =>
        \/ i = Len(recipients)
        \/ Shown("stopped")
        \/ selections[Len(selections)].acc = None

\* C20: under the scheduling of SpecLive (every send returns, a pause is
\* ended) the run ends; it ends with the list finished, after a selection
\* that found no account, or with stop seen; and at no time has the loop
\* started more than len(recipients) iterations or made more than
\* 2 * len(recipients) delivery attempts.
C20_RunEnds ==
    /\ <>(pc = "done")
    /\ [](/\ EndedForReason
          /\ Iterations <= Len(recipients)
          /\ Len(attempts) <= 2 * Len(recipients))

\* A run has ended with the list finished, one recipient of it having had
\* the two delivery attempts an iteration can make.
C20_Witness ==
    /\ pc = "done"
    /\ i = Len(recipients)
    /\ Len(attempts) = Len(recipients) + 1
    /\ Cardinality(AttemptsFor(recipients[1])) = 2

\* The successful sends the two runs have made through account id.
SendsOf(id) == runs[1].sent[id] + runs[2].sent[id]

\* No run is inside update_sent_counter.
Quiescent == \A r \in RunIds : runs[r].pc = "idle"

\* The stored count of account id is behind its successful sends of the day.
LostIncrement(id) ==
    get_sent_today(counters, id, today)
        < get_sent_today(counters0, id, today) + SendsOf(id)

\* C21: two runs race on the read-modify-write of update_sent_counter.  The
\* stored count of an account is never above its successful sends of the
\* day, and once both runs are outside update_sent_counter it is below them
\* only if one run read the file while the other was between its read and
\* its write; C21_Witness is the reachable state with the lost increment.
C21_LostIncrementOnlyByOverlap ==
    \A id \in StoreIds :
        /\ get_sent_today(counters, id, today)
              <= get_sent_today(counters0, id, today) + SendsOf(id)
        /\ (Quiescent /\ LostIncrement(id)) => probe.overlapped

\* Both runs have finished their updates and an account's stored count is
\* lower than the number of its successful sends of the day.
C21_Witness ==
    /\ Quiescent
    /\ \E id \in StoreIds : LostIncrement(id)

\* C22: in a single run (no other writer of the store) an account whose
\* count of the day is at or below daily_limit when the run starts has a
\* count of the day at or below daily_limit in every state of the run, the
\* states after a retry through that account included.
C22_CountWithinLimit ==
    \A id \in DOMAIN counters :
        get_sent_today(counters0, id, Today0) <= daily_limit
            => get_sent_today(counters, id, today) <= daily_limit

\* A retry through an account that started below the limit has succeeded
\* and brought the account's count to the limit.
C22_Witness ==
    \E j \in 1..Len(attempts) :
        /\ attempts[j].retry
        /\ attempts[j].ok
        /\ j = Len(attempts)
        /\ pc \in {"top", "finally"}
        /\ get_sent_today(counters0, attempts[j].account, Today0) < daily_limit
        /\ get_sent_today(counters, attempts[j].account, today) = daily_limit

\* The loop stands between two iterations or has left the for loop.
BetweenIterations == pc \in {"top", "finally", "done"}

\* C23: after every completed iteration sent + failed is the number of log
\* rows of this run; as long as the date is the one the run started on, each
\* account's count of the day has grown by the number of rows that say sent
\* and name it; and a step in which a send fails leaves the counters as
\* they were.
C23_TotalsRowsAndCounters ==
    /\ [](BetweenIterations =>
            /\ sent + failed = Len(rows)
            /\ Len(rows) = Len(sent_log)
            /\ today = Today0 =>
                  \A id \in DOMAIN counters :
                      get_sent_today(counters, id, today)
                          - get_sent_today(counters0, id, today)
                              = Cardinality(SentRowsOf(id)))
    /\ [][(/\ Len(attempts') = Len(attempts) + 1
           /\ ~attempts'[Len(attempts')].ok) => counters' = counters]_vars

\* Iterations have been completed with a sent row and a failed row, one of
\* them after a failed first attempt, all on the date the run started.
C23_Witness ==
    /\ pc = "top"
    /\ today = Today0
    /\ sent >= 1
    /\ failed >= 1
    /\ Len(attempts) > Len(rows)
    /\ \E id \in DOMAIN counters : Cardinality(SentRowsOf(id)) >= 1

\* A step of the send loop itself (not of a button or the calendar).
LoopStep == BeginIteration \/ Send \/ Resend \/ Finally

\* C24: a stop signaled while the pause flag is set ends the run without a
\* resume: once should_stop is true and the run has not ended, the loop has
\* a step it can take, whatever is_paused is, so it is never left waiting.
C24_StopEndsPausedRun ==
    (should_stop /\ pc # "done") => ENABLED LoopStep

\* C25: for every correlation identifier of the run, the account in its row
\* of the correlation-identifier map is the account in its row of the send
\* log, also when the recipient was sent through a second account.
C25_MapAccountIsLogAccount ==
    \A k \in 1..Len(uuid_map) :
        \A m \in 1..Len(sent_log) :
            uuid_map[k].uuid = sent_log[m].uuid
                => uuid_map[k].account = sent_log[m].account

====
